---- MODULE Spec2Model ----
(***************************************************************************)
(* FlagManager<T> (flagManager.h): a register of sizeof(T)*8 flags packed  *)
(* into one unsigned integer of type T, and the helper compareFlags.       *)
(*                                                                         *)
(* Values of T are the naturals 0 .. 2^numFlags - 1.  The C++ operators    *)
(* |, &, ^, ~ and << are computed on the integers as the language defines  *)
(* them (on the promoted operands) and converted back to T modulo          *)
(* 2^numFlags.  A String is the sequence of its characters.                *)
(*                                                                         *)
(* T ranges over uint8_t and uint16_t.  uint32_t is left out: its values   *)
(* do not fit the model checker's integers.                                *)
(***************************************************************************)
EXTENDS Integers, Sequences, FiniteSets

VARIABLES
  sizeofT,      \* sizeof(T) of the instantiation, fixed for a behaviour
  flags,        \* FlagManager::flags of the register (fm1 of compareFlags)
  op,           \* history: the member function called last
  arg,          \* history: its flagIndex, <<>> when it takes none
  pre,          \* history: flags as the last call began
  ret,          \* history: what the last call returned ("void" for void)
  prior,        \* history: the call before the last one when it took the
                \* same arguments as the last one, "other" when it did not
  fm2flags,     \* FlagManager::flags of a second register (fm2 of compareFlags)
  pc,           \* where mainline stands in a call that interrupts may preempt
  reg,          \* the value a compound assignment has loaded from flags
  flags_copy,   \* local of getFlagsString / getInverseFlagsString
  i,            \* loop counter of getFlagsString / getInverseFlagsString
  result,       \* local of getFlagsString / getInverseFlagsString
  flags1,       \* local of compareFlags
  flags2,       \* local of compareFlags
  isrN,         \* history: interrupt handlers run since mainline's call began
  isrCall,      \* history: the mutator the last of them called
  early,        \* history: one of them ran before flags_copy was taken
  mid,          \* history: one of them ran between two passes of the loop
  heldCls,      \* history: the classifications of the pairs of values the
                \* two registers held, instant by instant, during the call
  at1,          \* history: what fm1 held when compareFlags read it
  at2,          \* history: what fm2 held when compareFlags read it
  nreads        \* history: how often compareFlags has read fm1 and fm2

seqVars == <<op, arg, pre, ret, prior>>
mlVars == <<pc, reg, flags_copy, i, result, flags1, flags2>>
isrVars == <<isrN, isrCall, early, mid, heldCls, at1, at2, nreads>>
vars == <<sizeofT, flags, fm2flags, seqVars, mlVars, isrVars>>

(***************************************************************************)
(* Bounds of the model and constants of the program                        *)
(***************************************************************************)
BitsPerByte == 8

\* sizeof(uint8_t), sizeof(uint16_t)
Sizes == {1, 2}

\* flagIndex arguments tried: the LowIdx lowest and the HighIdx highest valid
\* indices, and OutIdx indices beyond either end of the range.
LowIdx == 2
HighIdx == 1
OutIdx == 1

numFlags == sizeofT * BitsPerByte

IdxSet ==
  ((0 - OutIdx) .. (-1)) \cup (0 .. (LowIdx - 1))
    \cup ((numFlags - HighIdx) .. (numFlags - 1))
    \cup (numFlags .. (numFlags + OutIdx - 1))

(***************************************************************************)
(* Integer arithmetic of the C++ operators                                 *)
(***************************************************************************)
RECURSIVE BitAnd(_, _)
BitAnd(a, b) ==
  IF a = 0 \/ b = 0 THEN 0
  ELSE (a % 2) * (b % 2) + 2 * BitAnd(a \div 2, b \div 2)

RECURSIVE BitOr(_, _)
BitOr(a, b) ==
  IF a = 0 THEN b
  ELSE IF b = 0 THEN a
  ELSE (IF a % 2 = 1 \/ b % 2 = 1 THEN 1 ELSE 0) + 2 * BitOr(a \div 2, b \div 2)

RECURSIVE BitXor(_, _)
BitXor(a, b) ==
  IF a = 0 THEN b
  ELSE IF b = 0 THEN a
  ELSE ((a + b) % 2) + 2 * BitXor(a \div 2, b \div 2)

\* ~v on a promoted (signed) operand: two's complement
BitNot(v) == (0 - v) - 1

\* conversion of an integer to the unsigned type T
CastT(v) == v % (2 ^ numFlags)

\* (T)1 << flagIndex
Shl1(flagIndex) == 2 ^ flagIndex

\* flagIndex >= 0 && flagIndex < numFlags
InRange(flagIndex) == flagIndex >= 0 /\ flagIndex < numFlags

(***************************************************************************)
(* The member functions, as functions of the register value f              *)
(***************************************************************************)
\* variant: the top flag masked off the value returned
getRawFlagsMasked(f) == f % (2 ^ (numFlags - 1))

getRawFlags(f) == f

\* variant: += in place of |=
setFlagAdd(f, flagIndex) ==
  IF InRange(flagIndex) THEN CastT(f + Shl1(flagIndex)) ELSE f

\* variant: no range check, the shift count taken modulo the width
setFlagUnchecked(f, flagIndex) ==
  CastT(BitOr(f, Shl1(flagIndex % numFlags)))

setFlag(f, flagIndex) ==
  IF InRange(flagIndex) THEN CastT(BitOr(f, Shl1(flagIndex))) ELSE f

\* flags &= ~((T)1 << flagIndex): the complement is taken on the promoted
\* operand and the result converted to T; conversion distributes over &.
clearFlag(f, flagIndex) ==
  IF InRange(flagIndex) THEN BitAnd(f, CastT(BitNot(Shl1(flagIndex)))) ELSE f

checkFlag(f, flagIndex) ==
  IF InRange(flagIndex) THEN BitAnd(f, Shl1(flagIndex)) # 0 ELSE FALSE

clearAllFlags == 0

\* variant: the largest value of the signed type of the same width
setAllFlagsSigned == (2 ^ (numFlags - 1)) - 1

setAllFlags == CastT(BitNot(0))

\* variant: |= in place of ^=
toggleFlagOr(f, flagIndex) ==
  IF InRange(flagIndex) THEN CastT(BitOr(f, Shl1(flagIndex))) ELSE f

toggleFlag(f, flagIndex) ==
  IF InRange(flagIndex) THEN CastT(BitXor(f, Shl1(flagIndex))) ELSE f

getCapacity == numFlags

\* variant: no local copy, the register read again on every pass
FlagCharLive(copy, k) == IF BitAnd(flags, Shl1(k)) # 0 THEN "1" ELSE "0"

\* one pass of the loop body of getFlagsString
FlagChar(copy, k) == IF BitAnd(copy, Shl1(k)) # 0 THEN "1" ELSE "0"

\* one pass of the loop body of getInverseFlagsString
InverseFlagChar(copy, k) ==
  IF BitAnd(copy, Shl1(k)) # 0 THEN "0" ELSE "1"

\* for (int i = numFlags - 1; i >= 0; i--) result += ...
RECURSIVE FlagsLoop(_, _, _)
FlagsLoop(copy, k, str) ==
  IF k >= 0
    THEN FlagsLoop(copy, k - 1, Append(str, FlagChar(copy, k)))
    ELSE str

RECURSIVE InverseFlagsLoop(_, _, _)
InverseFlagsLoop(copy, k, str) ==
  IF k >= 0
    THEN InverseFlagsLoop(copy, k - 1,
                          Append(str, InverseFlagChar(copy, k)))
    ELSE str

\* variant: the loop run from flag 0 upwards
RECURSIVE FlagsLoopUp(_, _, _)
FlagsLoopUp(copy, k, str) ==
  IF k < numFlags
    THEN FlagsLoopUp(copy, k + 1, Append(str, FlagChar(copy, k)))
    ELSE str

getFlagsStringLsbFirst(f) == FlagsLoopUp(f, 0, <<>>)

getFlagsString(f) == FlagsLoop(f, numFlags - 1, <<>>)

getInverseFlagsString(f) == InverseFlagsLoop(f, numFlags - 1, <<>>)

\* variant: the overlap tested before the equality
CompareCasesOverlapFirst(a, b) ==
  IF BitAnd(a, b) # 0 THEN -1 ELSE IF a = b THEN 1 ELSE 0

\* the three cases of compareFlags, on its locals flags1 and flags2
CompareCases(a, b) ==
  IF a = b THEN 1 ELSE IF BitAnd(a, b) # 0 THEN -1 ELSE 0

\* variant: the second local read from fm1 as well
ReadSecondFromFirst(f1, f2) == getRawFlags(f1)

\* T flags1 = fm1.getRawFlags();
ReadFirst(f1, f2) == getRawFlags(f1)

\* T flags2 = fm2.getRawFlags();
ReadSecond(f1, f2) == getRawFlags(f2)

compareFlags(f1, f2) == CompareCases(ReadFirst(f1, f2), ReadSecond(f1, f2))

\* a call of one of the mutators, c = <<name>> or <<name, flagIndex>>
Apply(c, f) ==
  CASE c[1] = "setFlag" -> setFlag(f, c[2])
    [] c[1] = "clearFlag" -> clearFlag(f, c[2])
    [] c[1] = "toggleFlag" -> toggleFlag(f, c[2])
    [] c[1] = "clearAllFlags" -> clearAllFlags
    [] c[1] = "setAllFlags" -> setAllFlags

(***************************************************************************)
(* Spec: one register, calls made one after the other                      *)
(***************************************************************************)
\* FlagManager() : flags(0)
Init ==
  /\ sizeofT \in Sizes
  /\ flags = 0
  /\ op = "FlagManager" /\ arg = <<>> /\ pre = 0 /\ ret = "void"
  /\ prior = "other"
  /\ fm2flags = 0
  /\ pc = "idle"
  /\ reg = 0 /\ flags_copy = 0 /\ i = 0 /\ result = <<>>
  /\ flags1 = 0 /\ flags2 = 0
  /\ isrN = 0 /\ isrCall = <<>> /\ early = FALSE /\ mid = FALSE
  /\ heldCls = {} /\ at1 = 0 /\ at2 = 0 /\ nreads = <<0, 0>>

Called(o, a, r) ==
  /\ op' = o /\ arg' = a /\ pre' = flags /\ ret' = r
  /\ prior' = IF arg = a THEN op ELSE "other"
  /\ UNCHANGED <<sizeofT, fm2flags, mlVars, isrVars>>

GetRawFlags ==
  /\ UNCHANGED flags
  /\ Called("getRawFlags", <<>>, getRawFlags(flags))

SetFlag ==
  \E flagIndex \in IdxSet :
    /\ flags' = setFlag(flags, flagIndex)
    /\ Called("setFlag", <<flagIndex>>, "void")

ClearFlag ==
  \E flagIndex \in IdxSet :
    /\ flags' = clearFlag(flags, flagIndex)
    /\ Called("clearFlag", <<flagIndex>>, "void")

CheckFlag ==
  \E flagIndex \in IdxSet :
    /\ UNCHANGED flags
    /\ Called("checkFlag", <<flagIndex>>, checkFlag(flags, flagIndex))

ClearAllFlags ==
  /\ flags' = clearAllFlags
  /\ Called("clearAllFlags", <<>>, "void")

SetAllFlags ==
  /\ flags' = setAllFlags
  /\ Called("setAllFlags", <<>>, "void")

ToggleFlag ==
  \E flagIndex \in IdxSet :
    /\ flags' = toggleFlag(flags, flagIndex)
    /\ Called("toggleFlag", <<flagIndex>>, "void")

GetCapacity ==
  /\ UNCHANGED flags
  /\ Called("getCapacity", <<>>, getCapacity)

GetFlagsString ==
  /\ UNCHANGED flags
  /\ Called("getFlagsString", <<>>, getFlagsString(flags))

GetInverseFlagsString ==
  /\ UNCHANGED flags
  /\ Called("getInverseFlagsString", <<>>, getInverseFlagsString(flags))

Next ==
  \/ GetRawFlags
  \/ SetFlag
  \/ ClearFlag
  \/ CheckFlag
  \/ ClearAllFlags
  \/ SetAllFlags
  \/ ToggleFlag
  \/ GetCapacity
  \/ GetFlagsString
  \/ GetInverseFlagsString

Spec == Init /\ [][Next]_vars

(***************************************************************************)
(* SpecCompare: two registers of one type, mutated in turn and compared    *)
(***************************************************************************)
\* the CmpIdx lowest flags are the ones the mutators are called with
CmpIdx == 4

CmpCalls ==
  ({"setFlag", "clearFlag", "toggleFlag"} \X (0 .. (CmpIdx - 1)))
    \cup {<<"clearAllFlags">>, <<"setAllFlags">>}

CalledOn(o) ==
  /\ op' = o /\ arg' = <<>> /\ pre' = 0 /\ prior' = "other"
  /\ UNCHANGED <<sizeofT, mlVars, isrVars>>

MutateFm1 ==
  \E c \in CmpCalls :
    /\ flags' = Apply(c, flags)
    /\ ret' = "void"
    /\ UNCHANGED fm2flags
    /\ CalledOn(c[1])

MutateFm2 ==
  \E c \in CmpCalls :
    /\ fm2flags' = Apply(c, fm2flags)
    /\ ret' = "void"
    /\ UNCHANGED flags
    /\ CalledOn(c[1])

CompareFlags ==
  /\ ret' = compareFlags(flags, fm2flags)
  /\ UNCHANGED <<flags, fm2flags>>
  /\ CalledOn("compareFlags")

NextCompare ==
  \/ MutateFm1
  \/ MutateFm2
  \/ CompareFlags

SpecCompare == Init /\ [][NextCompare]_vars

(***************************************************************************)
(* Interrupts.  Mainline runs one call at a time, statement by statement;  *)
(* an interrupt handler may run between any two of mainline's steps, calls *)
(* one mutator of the volatile-safe group and runs to completion.  A load  *)
(* or a store of a T is one step.                                          *)
(***************************************************************************)
\* the IsrIdx lowest flags are the ones the handlers are called with
IsrIdx == 1

\* handlers counted per mainline call
MaxIsr == 2

IsrCalls ==
  ({"setFlag", "clearFlag", "toggleFlag"} \X (0 .. (IsrIdx - 1)))
    \cup {<<"clearAllFlags">>, <<"setAllFlags">>}

(***************************************************************************)
(* SpecISR: mainline in setFlag, clearFlag or toggleFlag.  The compound    *)
(* assignment to the volatile flags is a load, the operation, and a store. *)
(***************************************************************************)
RmwCall ==
  /\ pc = "idle"
  /\ \E name \in {"setFlag", "clearFlag", "toggleFlag"}, flagIndex \in IdxSet :
       /\ op' = name /\ arg' = <<flagIndex>>
  /\ pre' = flags /\ ret' = "pending" /\ prior' = "other"
  /\ isrN' = 0 /\ isrCall' = <<>>
  /\ pc' = "if"
  /\ UNCHANGED <<sizeofT, flags, fm2flags, reg, flags_copy, i, result,
                 flags1, flags2, early, mid, heldCls, at1, at2, nreads>>

\* if (flagIndex >= 0 && flagIndex < numFlags)
RmwIf ==
  /\ pc = "if"
  /\ pc' = IF InRange(arg[1]) THEN "load" ELSE "return"
  /\ UNCHANGED <<sizeofT, flags, fm2flags, seqVars, reg, flags_copy, i,
                 result, flags1, flags2, isrVars>>

RmwLoad ==
  /\ pc = "load"
  /\ reg' = flags
  /\ pc' = "store"
  /\ UNCHANGED <<sizeofT, flags, fm2flags, seqVars, flags_copy, i, result,
                 flags1, flags2, isrVars>>

RmwStore ==
  /\ pc = "store"
  /\ flags' = Apply(<<op, arg[1]>>, reg)
  /\ pc' = "return"
  /\ UNCHANGED <<sizeofT, fm2flags, seqVars, reg, flags_copy, i, result,
                 flags1, flags2, isrVars>>

RmwReturn ==
  /\ pc = "return"
  /\ ret' = "void"
  /\ pc' = "done"
  /\ UNCHANGED <<sizeofT, flags, fm2flags, op, arg, pre, prior, reg,
                 flags_copy, i, result, flags1, flags2, isrVars>>

\* mainline goes on after the call: its locals are gone, and the history of
\* the call is dropped
Resume ==
  /\ pc = "done"
  /\ pc' = "idle"
  /\ op' = "none" /\ arg' = <<>> /\ pre' = 0 /\ ret' = "void"
  /\ prior' = "other"
  /\ reg' = 0 /\ flags_copy' = 0 /\ i' = 0 /\ result' = <<>>
  /\ flags1' = 0 /\ flags2' = 0
  /\ isrN' = 0 /\ isrCall' = <<>> /\ early' = FALSE /\ mid' = FALSE
  /\ heldCls' = {} /\ at1' = 0 /\ at2' = 0 /\ nreads' = <<0, 0>>
  /\ UNCHANGED <<sizeofT, flags, fm2flags>>

IsrRmw ==
  /\ pc \in {"idle", "if", "load", "store", "return"}
  /\ pc # "idle" => isrN < MaxIsr
  /\ \E c \in IsrCalls :
       /\ flags' = Apply(c, flags)
       /\ isrCall' = IF pc = "idle" THEN <<>> ELSE c
  /\ isrN' = IF pc = "idle" THEN 0 ELSE isrN + 1
  /\ UNCHANGED <<sizeofT, fm2flags, seqVars, mlVars, early, mid, heldCls,
                 at1, at2, nreads>>

NextISR ==
  \/ RmwCall
  \/ RmwIf
  \/ RmwLoad
  \/ RmwStore
  \/ RmwReturn
  \/ Resume
  \/ IsrRmw

SpecISR == Init /\ [][NextISR]_vars

(***************************************************************************)
(* SpecCompareISR: mainline in compareFlags, handlers on either register   *)
(***************************************************************************)
\* the classification of a pair of values, by arithmetic on their flags
Bit(f, j) == (f \div (2 ^ j)) % 2

Indices == 0 .. (numFlags - 1)

Classification(a, b) ==
  IF a = b THEN 1
  ELSE IF \E j \in Indices : Bit(a, j) = 1 /\ Bit(b, j) = 1 THEN -1
  ELSE 0

CmpCall ==
  /\ pc = "idle"
  /\ op' = "compareFlags" /\ arg' = <<>> /\ pre' = flags
  /\ ret' = "pending" /\ prior' = "other"
  /\ heldCls' = {Classification(flags, fm2flags)}
  /\ nreads' = <<0, 0>>
  /\ pc' = "flags1"
  /\ UNCHANGED <<sizeofT, flags, fm2flags, reg, flags_copy, i, result,
                 flags1, flags2, isrN, isrCall, early, mid, at1, at2>>

\* T flags1 = fm1.getRawFlags();
CmpReadFirst ==
  /\ pc = "flags1"
  /\ flags1' = ReadFirst(flags, fm2flags)
  /\ at1' = flags
  /\ nreads' = <<nreads[1] + 1, nreads[2]>>
  /\ pc' = "flags2"
  /\ UNCHANGED <<sizeofT, flags, fm2flags, seqVars, reg, flags_copy, i,
                 result, flags2, isrN, isrCall, early, mid, heldCls, at2>>

\* T flags2 = fm2.getRawFlags();
CmpReadSecond ==
  /\ pc = "flags2"
  /\ flags2' = ReadSecond(flags, fm2flags)
  /\ at2' = fm2flags
  /\ nreads' = <<nreads[1], nreads[2] + 1>>
  /\ pc' = "cases"
  /\ UNCHANGED <<sizeofT, flags, fm2flags, seqVars, reg, flags_copy, i,
                 result, flags1, isrN, isrCall, early, mid, heldCls, at1>>

CmpReturn ==
  /\ pc = "cases"
  /\ ret' = CompareCases(flags1, flags2)
  /\ pc' = "done"
  /\ UNCHANGED <<sizeofT, flags, fm2flags, op, arg, pre, prior, reg,
                 flags_copy, i, result, flags1, flags2, isrVars>>

IsrCmpFm1 ==
  /\ pc \in {"idle", "flags1", "flags2", "cases"}
  /\ \E c \in IsrCalls :
       /\ flags' = Apply(c, flags)
       /\ heldCls' = IF pc = "idle" THEN heldCls
                     ELSE heldCls \cup {Classification(flags', fm2flags)}
  /\ UNCHANGED <<sizeofT, fm2flags, seqVars, mlVars, isrN, isrCall, early,
                 mid, at1, at2, nreads>>

IsrCmpFm2 ==
  /\ pc \in {"idle", "flags1", "flags2", "cases"}
  /\ \E c \in IsrCalls :
       /\ fm2flags' = Apply(c, fm2flags)
       /\ heldCls' = IF pc = "idle" THEN heldCls
                     ELSE heldCls \cup {Classification(flags, fm2flags')}
  /\ UNCHANGED <<sizeofT, flags, seqVars, mlVars, isrN, isrCall, early,
                 mid, at1, at2, nreads>>

NextCompareISR ==
  \/ CmpCall
  \/ CmpReadFirst
  \/ CmpReadSecond
  \/ CmpReturn
  \/ Resume
  \/ IsrCmpFm1
  \/ IsrCmpFm2

SpecCompareISR == Init /\ [][NextCompareISR]_vars

(***************************************************************************)
(* SpecRenderISR: mainline in getFlagsString or getInverseFlagsString,     *)
(* handlers on the register being rendered                                 *)
(***************************************************************************)
RenderCall ==
  /\ pc = "idle"
  /\ op' \in {"getFlagsString", "getInverseFlagsString"}
  /\ arg' = <<>> /\ pre' = flags /\ ret' = "pending" /\ prior' = "other"
  /\ early' = FALSE /\ mid' = FALSE
  /\ pc' = "result"
  /\ UNCHANGED <<sizeofT, flags, fm2flags, reg, flags_copy, i, result,
                 flags1, flags2, isrN, isrCall, heldCls, at1, at2, nreads>>

\* String result = "";
RenderResult ==
  /\ pc = "result"
  /\ result' = <<>>
  /\ pc' = "flags_copy"
  /\ UNCHANGED <<sizeofT, flags, fm2flags, seqVars, reg, flags_copy, i,
                 flags1, flags2, isrVars>>

\* T flags_copy = flags;
RenderCopy ==
  /\ pc = "flags_copy"
  /\ flags_copy' = flags
  /\ pc' = "for"
  /\ UNCHANGED <<sizeofT, flags, fm2flags, seqVars, reg, i, result, flags1,
                 flags2, isrVars>>

\* int i = numFlags - 1
RenderFor ==
  /\ pc = "for"
  /\ i' = numFlags - 1
  /\ pc' = "loop"
  /\ UNCHANGED <<sizeofT, flags, fm2flags, seqVars, reg, flags_copy, result,
                 flags1, flags2, isrVars>>

\* i >= 0: result += ...; i--
RenderBody ==
  /\ pc = "loop"
  /\ i >= 0
  /\ result' = Append(result,
                      IF op = "getFlagsString" THEN FlagChar(flags_copy, i)
                      ELSE InverseFlagChar(flags_copy, i))
  /\ i' = i - 1
  /\ UNCHANGED <<sizeofT, flags, fm2flags, seqVars, pc, reg, flags_copy,
                 flags1, flags2, isrVars>>

\* i < 0: return result;
RenderReturn ==
  /\ pc = "loop"
  /\ i < 0
  /\ ret' = result
  /\ pc' = "done"
  /\ UNCHANGED <<sizeofT, flags, fm2flags, op, arg, pre, prior, reg,
                 flags_copy, i, result, flags1, flags2, isrVars>>

IsrRender ==
  /\ pc \in {"idle", "result", "flags_copy", "for", "loop"}
  /\ \E c \in IsrCalls : flags' = Apply(c, flags)
  /\ early' = IF pc \in {"result", "flags_copy"} THEN TRUE ELSE early
  /\ mid' = IF pc = "loop" /\ i >= 0 /\ i < numFlags - 1 /\ flags' # flags
            THEN TRUE ELSE mid
  /\ UNCHANGED <<sizeofT, fm2flags, seqVars, mlVars, isrN, isrCall, heldCls,
                 at1, at2, nreads>>

NextRenderISR ==
  \/ RenderCall
  \/ RenderResult
  \/ RenderCopy
  \/ RenderFor
  \/ RenderBody
  \/ RenderReturn
  \/ Resume
  \/ IsrRender

SpecRenderISR == Init /\ [][NextRenderISR]_vars

(***************************************************************************)
(* Properties of the calls made one after the other (Spec)                 *)
(***************************************************************************)
AllOnes == (2 ^ numFlags) - 1

\* the flags in which two values differ
DiffBits(a, b) == {j \in Indices : Bit(a, j) # Bit(b, j)}

IndexedMutators == {"setFlag", "clearFlag", "toggleFlag"}

Queries ==
  {"getRawFlags", "checkFlag", "getCapacity", "getFlagsString",
   "getInverseFlagsString"}

\* C2: for a valid index i, after setFlag(i) checkFlag(i) is true and
\* checkFlag(j) is what it was for every j # i; after a clearFlag(i) that
\* follows it, checkFlag(i) is false and every j # i is still what it was
\* before the setFlag(i).
C2_SetThenClear ==
  /\ [](op = "setFlag" /\ InRange(arg[1]) =>
          /\ checkFlag(flags, arg[1])
          /\ \A j \in Indices \ {arg[1]} :
               checkFlag(flags, j) = checkFlag(pre, j))
  /\ [][(op = "setFlag" /\ InRange(arg[1]) /\ op' = "clearFlag" /\ arg' = arg) =>
          /\ ~checkFlag(flags', arg[1])
          /\ \A j \in Indices \ {arg[1]} :
               checkFlag(flags', j) = checkFlag(pre, j)]_vars

\* setFlag(i) then clearFlag(i) have run on a flag that was set before, with
\* another flag set beside it
C2_Witness ==
  /\ op = "clearFlag" /\ prior = "setFlag" /\ InRange(arg[1])
  /\ ~checkFlag(flags, arg[1])
  /\ \E j \in Indices \ {arg[1]} : checkFlag(flags, j)

\* C3: for an index i < 0 or i >= capacity, setFlag(i), clearFlag(i) and
\* toggleFlag(i) leave the raw value as it was and return normally, and
\* checkFlag(i) returns false.
C3_OutOfRangeIgnored ==
  /\ (op \in IndexedMutators /\ ~InRange(arg[1])) =>
       (flags = pre /\ ret = "void")
  /\ (op = "checkFlag" /\ ~InRange(arg[1])) => (ret = FALSE /\ flags = pre)

\* a mutator was called with an index beyond the range on a register that
\* holds some flags
C3_Witness ==
  /\ op \in IndexedMutators /\ arg[1] >= numFlags
  /\ flags # 0 /\ flags # AllOnes

C6_ToggleInvolution ==
  /\ [](op = "toggleFlag" /\ InRange(arg[1]) =>
          /\ Bit(flags, arg[1]) = 1 - Bit(pre, arg[1])
          /\ DiffBits(flags, pre) = {arg[1]})
  /\ [][(op = "toggleFlag" /\ InRange(arg[1]) /\ op' = "toggleFlag"
            /\ arg' = arg) => flags' = pre]_vars

\* toggleFlag(i) has run twice in a row on a register that holds other flags
C6_Witness ==
  /\ op = "toggleFlag" /\ prior = "toggleFlag" /\ InRange(arg[1])
  /\ Bit(flags, arg[1]) = 1
  /\ \E j \in Indices \ {arg[1]} : Bit(flags, j) = 1

\* C7: clearAllFlags leaves 0 and setAllFlags leaves 2^capacity - 1 (0xFF,
\* 0xFFFF), which a getRawFlags that follows returns; after setAllFlags
\* checkFlag(i) is true for every valid i.
C7_ClearAllSetAll ==
  /\ [](op = "clearAllFlags" => flags = 0)
  /\ [](op = "setAllFlags" =>
          /\ flags = AllOnes
          /\ sizeofT = 1 => flags = 255
          /\ sizeofT = 2 => flags = 65535
          /\ \A j \in Indices : checkFlag(flags, j))
  /\ [][(op = "clearAllFlags" /\ op' = "getRawFlags") => ret' = 0]_vars
  /\ [][(op = "setAllFlags" /\ op' = "getRawFlags") => ret' = AllOnes]_vars

\* setAllFlags on a 16-bit register that was not full, then getRawFlags
C7_Witness ==
  /\ op = "getRawFlags" /\ prior = "setAllFlags"
  /\ sizeofT = 2 /\ ret = 65535

\* C8: getFlagsString returns capacity characters, the one at position k
\* from the left being '1' iff flag capacity-1-k is set;
\* getInverseFlagsString returns the same with every character flipped.
C8_FlagsStrings ==
  /\ op = "getFlagsString" =>
       /\ Len(ret) = numFlags
       /\ \A k \in Indices :
            ret[k + 1] = IF Bit(flags, numFlags - 1 - k) = 1 THEN "1" ELSE "0"
       /\ (sizeofT = 1 /\ flags = 129) =>
            ret = <<"1", "0", "0", "0", "0", "0", "0", "1">>
  /\ op = "getInverseFlagsString" =>
       /\ Len(ret) = numFlags
       /\ \A k \in Indices :
            ret[k + 1] = IF Bit(flags, numFlags - 1 - k) = 1 THEN "0" ELSE "1"
       /\ (sizeofT = 1 /\ flags = 129) =>
            ret = <<"0", "1", "1", "1", "1", "1", "1", "0">>

\* the 8-bit register 0b10000001 rendered, then rendered inverted
C8_Witness ==
  /\ op = "getInverseFlagsString" /\ prior = "getFlagsString"
  /\ sizeofT = 1 /\ flags = 129
  /\ ret = <<"0", "1", "1", "1", "1", "1", "1", "0">>

(***************************************************************************)
(* Properties of compareFlags (SpecCompare)                                *)
(***************************************************************************)
\* C4: compareFlags returns 1 when the raw values are equal (both 0, or
\* equal and overlapping), else -1 when they share a set flag, else 0.
C4_CompareFlags ==
  op = "compareFlags" =>
    /\ ret = Classification(flags, fm2flags)
    /\ (flags = 0 /\ fm2flags = 0) => ret = 1
    /\ (flags = 10 /\ fm2flags = 10) => ret = 1
    /\ (flags = 10 /\ fm2flags = 6) => ret = -1
    /\ (flags = 10 /\ fm2flags = 5) => ret = 0

\* two equal registers with flags in common have been compared
C4_Witness ==
  /\ op = "compareFlags" /\ flags = 10 /\ fm2flags = 10 /\ ret = 1

(***************************************************************************)
(* Properties under interrupts                                             *)
(***************************************************************************)
\* C1: when one handler has run setFlag, clearFlag or toggleFlag during
\* mainline's setFlag, clearFlag or toggleFlag, the register ends as if the
\* two calls had run one after the other, in one order or the other.
C1_Atomic ==
  (pc = "done" /\ op \in IndexedMutators /\ isrN = 1
     /\ isrCall[1] \in IndexedMutators) =>
    flags \in {Apply(<<op, arg[1]>>, Apply(isrCall, pre)),
               Apply(isrCall, Apply(<<op, arg[1]>>, pre))}

\* C9, as stated: the value compareFlags returns is the classification of a
\* pair of values the two registers held at one and the same instant of the
\* call.
C9_SameInstant ==
  (pc = "done" /\ op = "compareFlags") => ret \in heldCls

\* C9, amended: compareFlags reads each register once, fm1 first, and
\* returns the classification of the value fm1 held when it was read and
\* the value fm2 held when it was read.
C9_ReadOnceEach ==
  (pc = "done" /\ op = "compareFlags") =>
    /\ nreads = <<1, 1>>
    /\ ret = Classification(at1, at2)

\* a call returned a classification the two registers never had
C9_Witness ==
  /\ pc = "done" /\ op = "compareFlags"
  /\ ret = Classification(at1, at2)
  /\ ret \notin heldCls

\* the rendering a value v is to have, by arithmetic on its flags
Rendering(name, v) ==
  [k \in 1 .. numFlags |->
     IF (Bit(v, numFlags - k) = 1) = (name = "getFlagsString")
       THEN "1" ELSE "0"]

\* C10: the string returned is the rendering of the one value copied into
\* flags_copy; handlers that run only once the copy is taken, during the
\* loop, leave it the rendering of the value the register held as the call
\* began.
C10_RendersSnapshot ==
  (pc = "done" /\ op \in {"getFlagsString", "getInverseFlagsString"}) =>
    /\ ret = Rendering(op, flags_copy)
    /\ ~early => ret = Rendering(op, pre)

\* a handler changed the register between two passes of the loop, none ran
\* before, and the string is the rendering of the value at the call's start
C10_Witness ==
  /\ pc = "done" /\ op = "getFlagsString"
  /\ ~early /\ mid /\ flags # pre
  /\ ret = Rendering(op, pre)

====
